---- MODULE Spec2Model ----
(***************************************************************************)
(* Model of src/mortgage_calculator_backend/src/routes/mortgage.py:        *)
(* validate_input, calculate_mortgage and the /calculate handler.          *)
(*                                                                         *)
(* Text is a sequence of one-character strings.  A number is a record      *)
(*   [type, kind, neg, int, frac, tiny, ulp]                               *)
(* kind "finite": magnitude int + frac / 10^FracDigits, plus a non-zero    *)
(* remainder below 10^-FracDigits when tiny, plus an infinitesimal of sign *)
(* ulp (the distance between a binary double and the decimal literal that  *)
(* denotes it).  int saturates at MaxInt, which lies above every bound the *)
(* program compares with.  kind "inf", "nan", "snan" are the special       *)
(* values of decimal.Decimal and float.  Texts are ASCII and short enough   *)
(* (fewer than ExpCap - 10 digits) for the exponent cap to change no       *)
(* comparison with a bound.                                                *)
(*                                                                         *)
(* calculate_mortgage is modelled by its control flow: which branch runs   *)
(* and whether it raises.  The amount a branch computes in double          *)
(* arithmetic is kept as a term over its arguments, not evaluated.         *)
(*                                                                         *)
(* Spec is the service handling requests one at a time; SpecValidate       *)
(* applies validate_input alone to a drawn value and pair of bounds.       *)
(***************************************************************************)
EXTENDS Integers, Sequences, FiniteSets, TLC

VARIABLES pc, request, response, checked, calls, served, vin, vout

vars == <<pc, request, response, checked, calls, served, vin, vout>>

\* ------------------------------------------------------------------ bounds
MaxInt == 2000000000
ExpCap == 30
FracDigits == 6
MaxRequests == 2
MaxLen == 3

\* ------------------------------------------------------------------ text
None == [kind |-> "None"]

Uppers == <<"A","B","C","D","E","F","G","H","I","J","K","L","M",
            "N","O","P","Q","R","S","T","U","V","W","X","Y","Z">>
Lowers == <<"a","b","c","d","e","f","g","h","i","j","k","l","m",
            "n","o","p","q","r","s","t","u","v","w","x","y","z">>
Digits == <<"0","1","2","3","4","5","6","7","8","9">>

Range(f) == {f[i] : i \in DOMAIN f}

\* re.IGNORECASE: both sides are compared case-folded.
Lower(c) ==
    IF \E i \in DOMAIN Uppers : Uppers[i] = c
    THEN Lowers[CHOOSE i \in DOMAIN Uppers : Uppers[i] = c]
    ELSE c

LowerAll(s) == [i \in DOMAIN s |-> Lower(s[i])]

IsDigit(c) == c \in Range(Digits)
\* \s and \w of the re module, over ASCII.
IsSpace(c) == c \in {" ", "\t", "\n", "\r"}
IsWord(c) == Lower(c) \in Range(Lowers) \/ IsDigit(c) \/ c = "_"
\* "." of the re module matches everything but a newline.
IsDot(c) == c # "\n"

SetMin(S) == CHOOSE x \in S : \A y \in S : x <= y
SetMax(S) == CHOOSE x \in S : \A y \in S : x >= y

\* str.strip()
Kept(s) == {i \in DOMAIN s : ~IsSpace(s[i])}
Strip(s) ==
    IF Kept(s) = {} THEN <<>> ELSE SubSeq(s, SetMin(Kept(s)), SetMax(Kept(s)))

\* str(value) for the values a JSON payload can hold.  A JSON number is
\* carried with the text Python prints for it.
PyStr(value) ==
    CASE value.kind = "None"  -> <<"N","o","n","e">>
      [] value.kind = "str"   -> value.chars
      [] value.kind = "num"   -> value.repr
      [] value.kind = "bool"  -> IF value.b THEN <<"T","r","u","e">>
                                 ELSE <<"F","a","l","s","e">>

\* ------------------------------------------------------------------ patterns
\* lit (lower case) occurs in s at position i, case-insensitively.
LitAt(s, i, lit) ==
    /\ i >= 1
    /\ i + Len(lit) - 1 <= Len(s)
    /\ \A k \in 1..Len(lit) : Lower(s[i + k - 1]) = lit[k]

\* Every character of s[lo..hi] is matched by ".", by \w, by \s.
AllDot(s, lo, hi) == \A k \in lo..hi : IsDot(s[k])
AllWord(s, lo, hi) == \A k \in lo..hi : IsWord(s[k])
AllSpace(s, lo, hi) == \A k \in lo..hi : IsSpace(s[k])

\* r'<script.*?>.*?</script>'
PatScript(s) ==
    \E i \in DOMAIN s :
      /\ LitAt(s, i, <<"<","s","c","r","i","p","t">>)
      /\ \E j \in (i + 7)..Len(s) :
           /\ s[j] = ">"
           /\ AllDot(s, i + 7, j - 1)
           /\ \E k \in (j + 1)..Len(s) :
                /\ LitAt(s, k, <<"<","/","s","c","r","i","p","t",">">>)
                /\ AllDot(s, j + 1, k - 1)

\* r'javascript:'
PatJavascript(s) ==
    \E i \in DOMAIN s :
      LitAt(s, i, <<"j","a","v","a","s","c","r","i","p","t",":">>)

\* r'on\w+\s*='
PatHandler(s) ==
    \E i \in DOMAIN s :
      /\ LitAt(s, i, <<"o","n">>)
      /\ \E j \in (i + 2)..Len(s) :
           /\ AllWord(s, i + 2, j)
           /\ \E k \in (j + 1)..Len(s) :
                /\ s[k] = "="
                /\ AllSpace(s, j + 1, k - 1)

\* r'<.*?>'
PatTag(s) ==
    \E i \in DOMAIN s :
      /\ s[i] = "<"
      /\ \E j \in (i + 1)..Len(s) :
           /\ s[j] = ">"
           /\ AllDot(s, i + 1, j - 1)

\* The character class of semicolon, ampersand, bar, backquote and dollar.
\* The backquote character is written "BACKQUOTE": the TLA+ lexer does
\* not accept it inside a string.
PatMeta(s) == \E i \in DOMAIN s : s[i] \in {";", "&", "|", "BACKQUOTE", "$"}

\* r'<first>\s+<second>' for the four SQL keyword pairs
PatPair(s, first, second) ==
    \E i \in DOMAIN s :
      /\ LitAt(s, i, first)
      /\ \E k \in (i + Len(first) + 1)..Len(s) :
           /\ AllSpace(s, i + Len(first), k - 1)
           /\ LitAt(s, k, second)

PatUnionSelect(s) == PatPair(s, <<"u","n","i","o","n">>, <<"s","e","l","e","c","t">>)
PatDropTable(s)   == PatPair(s, <<"d","r","o","p">>, <<"t","a","b","l","e">>)
PatInsertInto(s)  == PatPair(s, <<"i","n","s","e","r","t">>, <<"i","n","t","o">>)
PatDeleteFrom(s)  == PatPair(s, <<"d","e","l","e","t","e">>, <<"f","r","o","m">>)

\* Mutant: the two tag patterns are missing from the list.
IsMaliciousNoTags(s) ==
    \/ PatJavascript(s)
    \/ PatHandler(s)
    \/ PatMeta(s)
    \/ PatUnionSelect(s)
    \/ PatDropTable(s)
    \/ PatInsertInto(s)
    \/ PatDeleteFrom(s)

\* The loop over malicious_patterns: any re.search hit.
IsMalicious(s) ==
    \/ PatScript(s)
    \/ PatJavascript(s)
    \/ PatHandler(s)
    \/ PatTag(s)
    \/ PatMeta(s)
    \/ PatUnionSelect(s)
    \/ PatDropTable(s)
    \/ PatInsertInto(s)
    \/ PatDeleteFrom(s)

\* ------------------------------------------------------------------ numbers
Num(type, kind, neg, int, frac, tiny, ulp) ==
    [type |-> type, kind |-> kind, neg |-> neg, int |-> int, frac |-> frac,
     tiny |-> tiny, ulp |-> ulp]

Special(type, kind, neg) == Num(type, kind, neg, 0, 0, FALSE, 0)

Invalid == [kind |-> "invalid"]

DigitVal(c) == (CHOOSE i \in DOMAIN Digits : Digits[i] = c) - 1

Zeros(k) == [i \in 1..k |-> "0"]

AllDigits(s) == \A i \in DOMAIN s : IsDigit(s[i])

\* The value of a digit string, saturating at MaxInt.
RECURSIVE DigitsToNat(_, _)
DigitsToNat(ds, acc) ==
    IF ds = <<>> THEN acc
    ELSE DigitsToNat(Tail(ds),
                     IF acc > (MaxInt - 9) \div 10 THEN MaxInt
                     ELSE acc * 10 + DigitVal(Head(ds)))

\* The finite value whose integer digits are idig and fraction digits fdig.
FromDigits(type, neg, idig, fdig) ==
    Num(type, "finite", neg,
        DigitsToNat(idig, 0),
        DigitsToNat(SubSeq(fdig \o Zeros(FracDigits), 1, FracDigits), 0),
        \E i \in DOMAIN fdig : i > FracDigits /\ fdig[i] # "0",
        0)

\* The digit string all with its decimal point after the first p digits.
PointAt(type, neg, all, p) ==
    FromDigits(type, neg,
               IF p <= 0 THEN <<>>
               ELSE IF p >= Len(all) THEN all \o Zeros(p - Len(all))
               ELSE SubSeq(all, 1, p),
               IF p <= 0 THEN Zeros(0 - p) \o all
               ELSE IF p >= Len(all) THEN <<>>
               ELSE SubSeq(all, p + 1, Len(all)))

\* The finite value written with integer digits ip, fraction digits fr and
\* exponent e (|e| <= ExpCap): the decimal point of ip.fr moved e places.
Scaled(type, neg, ip, fr, e) == PointAt(type, neg, ip \o fr, Len(ip) + e)

Unsigned(x) == IF x # <<>> /\ x[1] \in {"+", "-"} THEN Tail(x) ELSE x
IsMinus(x) == x # <<>> /\ x[1] = "-"

\* An exponent part: optional sign, then one or more digits.
ExponentOk(x) == Unsigned(x) # <<>> /\ AllDigits(Unsigned(x))

Capped(n) == IF n > ExpCap THEN ExpCap ELSE n

ExponentVal(x) ==
    IF IsMinus(x) THEN 0 - Capped(DigitsToNat(Unsigned(x), 0))
    ELSE Capped(DigitsToNat(Unsigned(x), 0))

\* The text before, and after, the first occurrence of c in s.
Has(s, c) == \E i \in DOMAIN s : s[i] = c
First(s, c) == SetMin({i \in DOMAIN s : s[i] = c})
Before(s, c) == IF Has(s, c) THEN SubSeq(s, 1, First(s, c) - 1) ELSE s
After(s, c) == IF Has(s, c) THEN SubSeq(s, First(s, c) + 1, Len(s)) ELSE <<>>

NotUnderscore(c) == c # "_"

\* Digits with an optional point, then an optional exponent part.
DecimalDigits(neg, ip, fr, expo, has_exp) ==
    IF /\ AllDigits(ip) /\ AllDigits(fr)
       /\ Len(ip) + Len(fr) >= 1
       /\ (~has_exp \/ ExponentOk(expo))
    THEN Scaled("Decimal", neg, ip, fr, IF has_exp THEN ExponentVal(expo) ELSE 0)
    ELSE Invalid

DecimalNumber(neg, mant, expo, has_exp) ==
    DecimalDigits(neg, Before(mant, "."), After(mant, "."), expo, has_exp)

\* u: the text after the sign, in lower case.
DecimalUnsigned(neg, u) ==
    IF u = <<"i","n","f">> \/ u = <<"i","n","f","i","n","i","t","y">>
      THEN Special("Decimal", "inf", neg)
    ELSE IF Len(u) >= 3 /\ SubSeq(u, 1, 3) = <<"n","a","n">>
            /\ AllDigits(SubSeq(u, 4, Len(u)))
      THEN Special("Decimal", "nan", neg)
    ELSE IF Len(u) >= 4 /\ SubSeq(u, 1, 4) = <<"s","n","a","n">>
            /\ AllDigits(SubSeq(u, 5, Len(u)))
      THEN Special("Decimal", "snan", neg)
    ELSE DecimalNumber(neg, Before(u, "e"), After(u, "e"), Has(u, "e"))

DecimalSigned(t) == DecimalUnsigned(IsMinus(t), LowerAll(Unsigned(t)))

\* decimal.Decimal(str): surrounding whitespace and all underscores are
\* dropped; then an optional sign and either digits with an optional point
\* and an optional exponent, or inf / infinity, or nan / snan with optional
\* payload digits, in any case.  Anything else raises InvalidOperation
\* (Invalid here).
Decimal(str) == DecimalSigned(SelectSeq(Strip(str), NotUnderscore))

\* The literals the handler passes as bounds.  An int literal is exact.  A
\* float literal is the binary double nearest to its decimal text: ulp is
\* the sign of (double - text), +1 for 0.01 (0.01000000000000000020816...),
\* 0 for 50.0.
IntLiteral(text) == [Decimal(text) EXCEPT !.type = "int"]
FloatLiteral(text, ulp) == [Decimal(text) EXCEPT !.type = "float", !.ulp = ulp]

IsZero(x) == x.kind = "finite" /\ x.int = 0 /\ x.frac = 0 /\ ~x.tiny /\ x.ulp = 0

RECURSIVE LexLess(_, _)
LexLess(a, b) ==
    IF a = <<>> THEN FALSE
    ELSE IF Head(a) # Head(b) THEN Head(a) < Head(b)
    ELSE LexLess(Tail(a), Tail(b))

MagKey(x) == <<x.int, x.frac, IF x.tiny THEN 1 ELSE 0, x.ulp>>

\* a < b for two numbers neither of which is a NaN.
NumLess(a, b) ==
    LET an == a.neg /\ ~IsZero(a)
        bn == b.neg /\ ~IsZero(b)
    IN  IF a.kind = "inf" THEN a.neg /\ ~(b.kind = "inf" /\ b.neg)
        ELSE IF b.kind = "inf" THEN ~b.neg
        ELSE IF an /\ bn THEN LexLess(MagKey(b), MagKey(a))
        ELSE IF an THEN TRUE
        ELSE IF bn THEN FALSE
        ELSE LexLess(MagKey(a), MagKey(b))

\* Decimal.__lt__ / __gt__ against an int or float: an ordering comparison
\* with a NaN operand signals InvalidOperation, which the default context
\* traps (raises).
CompareRaises(d) == d.kind \in {"nan", "snan"}

\* float(decimal_value): a signaling NaN raises ValueError.
FloatRaises(d) == d.kind = "snan"
Float(d) == [d EXCEPT !.type = "float"]

\* ------------------------------------------------------------------ validate_input
\* f"{field_name} <text> {bound}": the message keeps its parts.
Msg(text, field_name, bound) ==
    [kind |-> "message", text |-> text, field |-> field_name, bound |-> bound]

\* A call's outcome: the pair it returns, or the exception it raises.
Ret(value, error) == [kind |-> "return", value |-> value, error |-> error]
Raise(exc) == [kind |-> "raise", exc |-> exc]

IsNone(x) == x.kind = "None"

\* Lines 49-56: the range gates and the conversion to float.
validate_decimal(decimal_value, field_name, min_val, max_val) ==
    IF ~IsNone(min_val) /\ CompareRaises(decimal_value)
      THEN Raise("InvalidOperation")
    ELSE IF ~IsNone(min_val) /\ NumLess(decimal_value, min_val)
      THEN Ret(None, Msg("must be at least", field_name, min_val))
    ELSE IF ~IsNone(max_val) /\ CompareRaises(decimal_value)
      THEN Raise("InvalidOperation")
    ELSE IF ~IsNone(max_val) /\ NumLess(max_val, decimal_value)
      THEN Ret(None, Msg("must be no more than", field_name, max_val))
    ELSE IF FloatRaises(decimal_value)
      THEN Raise("ValueError")
    ELSE Ret(Float(decimal_value), None)

\* Lines 44-47: Decimal(str_value), InvalidOperation caught.
validate_number(decimal_value, field_name, min_val, max_val) ==
    IF decimal_value.kind = "invalid"
    THEN Ret(None, Msg("must be a valid number", field_name, None))
    ELSE validate_decimal(decimal_value, field_name, min_val, max_val)

\* Lines 22-41: the empty check and the pattern loop.
validate_text(str_value, field_name, min_val, max_val) ==
    IF str_value = <<>>
      THEN Ret(None, Msg("cannot be empty", field_name, None))
    ELSE IF IsMalicious(str_value)
      THEN Ret(None, Msg("Invalid characters detected in", field_name, None))
    ELSE validate_number(Decimal(str_value), field_name, min_val, max_val)

\* The body of the outer try block, lines 18-56.
validate_input_body(value, field_name, min_val, max_val) ==
    validate_text(Strip(PyStr(value)), field_name, min_val, max_val)

\* The except clause of lines 58-60.
catch_all(r, field_name) ==
    IF r.kind = "raise"
    THEN Ret(None, Msg("Validation error for", field_name, None))
    ELSE r

\* Mutant: the outer except clause is missing.
validate_input_uncaught(value, field_name, min_val, max_val) ==
    validate_input_body(value, field_name, min_val, max_val)

\* validate_input, lines 12-60.
validate_input(value, field_name, min_val, max_val) ==
    catch_all(validate_input_body(value, field_name, min_val, max_val), field_name)

\* ------------------------------------------------------------------ calculate_mortgage
MONTHS_IN_YEAR == 12
PERCENT_DIVISOR == 100

\* A float below the model's resolution: zero, or a non-zero value smaller
\* than 10^-FracDigits.
BelowResolution(x) == x.kind = "finite" /\ x.int = 0 /\ x.frac = 0

\* monthly_rate == 0, for monthly_rate = annual_rate / 100 / 12.
MonthlyRateIsZero(annual_rate) == BelowResolution(annual_rate) /\ ~annual_rate.tiny

\* num_payments == 0, for num_payments = years * 12.
NumPaymentsIsZero(years) == BelowResolution(years) /\ ~years.tiny

\* factor - 1 == 0, for factor = (1 + monthly_rate) ** num_payments: with no
\* payment, or with a rate that 1 + monthly_rate absorbs.  A rate or term
\* below the model's resolution counts as absorbed.
FactorMinusOneIsZero(annual_rate, years) ==
    BelowResolution(annual_rate) \/ BelowResolution(years)

\* The float a branch of the formula computes, kept as the term it is.
Payment(branch, principal, annual_rate, years) ==
    [kind |-> "return", branch |-> branch, principal |-> principal,
     monthly_rate |-> [of |-> annual_rate, over |-> PERCENT_DIVISOR * MONTHS_IN_YEAR],
     num_payments |-> [of |-> years, times |-> MONTHS_IN_YEAR]]

\* calculate_mortgage for float or None arguments: every exception of the
\* body (TypeError on None, ZeroDivisionError) is raised again as ValueError.
calculate_mortgage(principal, annual_rate, years) ==
    IF IsNone(principal) \/ IsNone(annual_rate) \/ IsNone(years)
      THEN Raise("ValueError")
    ELSE IF MonthlyRateIsZero(annual_rate)
      THEN IF NumPaymentsIsZero(years) THEN Raise("ValueError")
           ELSE Payment("zero_rate", principal, annual_rate, years)
    ELSE IF FactorMinusOneIsZero(annual_rate, years)
      THEN Raise("ValueError")
    ELSE Payment("general", principal, annual_rate, years)

\* ------------------------------------------------------------------ calculate
PrincipalMin == IntLiteral(<<"1","0","0","0">>)
PrincipalMax == IntLiteral(<<"1","0","0","0","0","0","0","0">>)
\* Mutant: the minimum rate is 0.
RateMinZero == IntLiteral(<<"0">>)
RateMin == FloatLiteral(<<"0",".","0","1">>, 1)
RateMax == FloatLiteral(<<"5","0",".","0">>, 0)
YearsMin == IntLiteral(<<"1">>)
YearsMax == IntLiteral(<<"5","0">>)

Response(status, error, details, result) ==
    [kind |-> "response", status |-> status, error |-> error,
     details |-> details, result |-> result]

\* Mutant: the first error ends the collection.
CollectFirstOnly(principal_error, rate_error, years_error) ==
    IF ~IsNone(principal_error) THEN <<principal_error>>
    ELSE IF ~IsNone(rate_error) THEN <<rate_error>>
    ELSE IF ~IsNone(years_error) THEN <<years_error>>
    ELSE <<>>

\* Mutant: the years error is not collected.
CollectWithoutYears(principal_error, rate_error, years_error) ==
    (IF ~IsNone(principal_error) THEN <<principal_error>> ELSE <<>>)
    \o (IF ~IsNone(rate_error) THEN <<rate_error>> ELSE <<>>)

\* errors, lines 135-141.  Every message is a non-empty string, so an
\* error is truthy exactly when it is not None.
CollectErrors(principal_error, rate_error, years_error) ==
    (IF ~IsNone(principal_error) THEN <<principal_error>> ELSE <<>>)
    \o (IF ~IsNone(rate_error) THEN <<rate_error>> ELSE <<>>)
    \o (IF ~IsNone(years_error) THEN <<years_error>> ELSE <<>>)

\* The three validate_input calls, lines 113-132 (data.get gives None for
\* a key the payload lacks).
ValidateFields(data) ==
    [kind |-> "checked",
     principal |-> validate_input(data.principal, "Principal",
                                  PrincipalMin, PrincipalMax),
     annual_rate |-> validate_input(data.annualRate, "Annual Interest Rate",
                                    RateMin, RateMax),
     years |-> validate_input(data.years, "Years", YearsMin, YearsMax)]

\* int(years): truncation towards zero.
IntOf(x) == x.int

\* The success body, lines 153-167; the rounded amounts stay terms.
SuccessBody(monthly_payment, principal, annual_rate, years) ==
    [kind |-> "success",
     monthlyPayment |-> [round2 |-> "monthly_payment", of |-> monthly_payment],
     totalPayment   |-> [round2 |-> "monthly_payment * years * 12", of |-> monthly_payment],
     totalInterest  |-> [round2 |-> "total_payment - principal", of |-> monthly_payment],
     principal |-> principal, annualRate |-> annual_rate, years |-> IntOf(years)]

\* Lines 149-167: the calculator runs once, v holding the validated values.
Respond(v, m) ==
    [response |->
        IF m.kind = "raise"
        THEN Response(400, "Calculation error occurred", <<>>, None)
        ELSE Response(200, "", <<>>,
                      SuccessBody(m, v.principal.value, v.annual_rate.value,
                                  v.years.value)),
     calls |-> <<[principal |-> v.principal.value,
                  annual_rate |-> v.annual_rate.value,
                  years |-> v.years.value, result |-> m]>>,
     checked |-> v]

\* Lines 143-150: the error list decides.
Decide(v, errors) ==
    IF errors # <<>>
    THEN [response |-> Response(400, "Validation failed", errors, None),
          calls |-> <<>>, checked |-> v]
    ELSE Respond(v, calculate_mortgage(v.principal.value, v.annual_rate.value,
                                       v.years.value))

Collect(v) ==
    Decide(v, CollectErrors(v.principal.error, v.annual_rate.error, v.years.error))

\* Lines 112-167 for a mapping payload: [response, calls, checked].
HandleMapping(data) == Collect(ValidateFields(data))

\* calculate(), lines 98-179, for one request.
Handle(req) ==
    IF ~req.is_json
      THEN [response |-> Response(400, "Content-Type must be application/json",
                                  <<>>, None),
            calls |-> <<>>, checked |-> None]
    ELSE IF req.data.kind = "malformed"
      \* get_json raises BadRequest, which "except Exception" catches
      THEN [response |-> Response(500, "An unexpected error occurred", <<>>, None),
            calls |-> <<>>, checked |-> None]
    ELSE IF req.data.kind \in {"None", "empty"}
      THEN [response |-> Response(400, "Request body cannot be empty", <<>>, None),
            calls |-> <<>>, checked |-> None]
    ELSE IF req.data.kind = "array"
      \* a non-empty list has no get: AttributeError
      THEN [response |-> Response(500, "An unexpected error occurred", <<>>, None),
            calls |-> <<>>, checked |-> None]
    ELSE HandleMapping(req.data)

\* ------------------------------------------------------------------ inputs
StrV(chars) == [kind |-> "str", chars |-> chars]
NumV(repr) == [kind |-> "num", repr |-> repr]

ScriptText ==
    <<"<","s","c","r","i","p","t",">","a","l","e","r","t","(","1",")",
      "<","/","s","c","r","i","p","t",">">>

\* Values a field of the payload is drawn from: absent (None), JSON strings
\* and JSON numbers.
FieldValues ==
    { None,
      StrV(<<>>), StrV(<<" ">>), StrV(<<"a","b","c">>), StrV(<<"N","a","N">>),
      StrV(ScriptText), StrV(<<"1",";">>),
      StrV(<<"0">>), StrV(<<"0",".","0","1">>), StrV(<<"0",".","0","2">>),
      StrV(<<"1">>), StrV(<<"2",".","5">>), StrV(<<"5","0">>),
      StrV(<<"5","0",".","0">>), StrV(<<"5","1">>),
      StrV(<<"9","9","9">>), StrV(<<"1","0","0","0">>),
      StrV(<<"1","0","0","0","0","0","0","0">>),
      StrV(<<"1","0","0","0","0","0","0","1">>),
      NumV(<<"6",".","5">>), NumV(<<"3","0">>),
      NumV(<<"3","0","0","0","0","0">>) }

Mapping(p, r, y) ==
    [kind |-> "dict", principal |-> p, annualRate |-> r, years |-> y]

Body(kind) == [kind |-> kind, principal |-> None, annualRate |-> None,
               years |-> None]

Request(route, is_json, data) ==
    [kind |-> "request", route |-> route, is_json |-> is_json, data |-> data]

Requests ==
    {Request("/calculate", FALSE, Body("None")), Request("/health", FALSE, Body("None"))}
    \cup {Request("/calculate", TRUE, Body(k)) :
            k \in {"None", "malformed", "empty", "array"}}
    \cup {Request("/calculate", TRUE, Mapping(p, r, y)) :
            p \in FieldValues, r \in FieldValues, y \in FieldValues}

\* Texts of at most n characters over a small alphabet.
Alphabet == {"0", "1", ".", "n", "a", "<", ">", " "}

RECURSIVE Texts(_)
Texts(n) ==
    IF n = 0 THEN {<<>>}
    ELSE LET shorter == Texts(n - 1)
         IN  shorter \cup {Append(t, c) : t \in shorter, c \in Alphabet}

BoundChoices == {None, RateMin, PrincipalMin, YearsMax}

Call(value, field_name, min_val, max_val) ==
    [kind |-> "call", value |-> value, field_name |-> field_name,
     min_val |-> min_val, max_val |-> max_val]

ValidateCalls ==
    {Call(v, "Field", lo, hi) :
        v \in FieldValues \cup {StrV(t) : t \in Texts(MaxLen)}
              \cup {StrV(<<"s","N","a","N">>), StrV(<<"-","i","n","f">>),
                    StrV(<<"1","e","9","9">>), NumV(<<"-","5">>),
                    [kind |-> "bool", b |-> TRUE]},
        lo \in BoundChoices, hi \in BoundChoices}

\* ------------------------------------------------------------------ the service
Init ==
    /\ pc = "idle"
    /\ request = None
    /\ response = None
    /\ checked = None
    /\ calls = <<>>
    /\ served = 0
    /\ vin = None
    /\ vout = None

\* A request arrives.
Receive(req) ==
    /\ pc = "idle"
    /\ served < MaxRequests
    /\ request' = req
    /\ pc' = "received"
    /\ UNCHANGED <<response, checked, calls, served, vin, vout>>

\* POST /calculate: the handler runs to its response.
Calculate ==
    /\ pc = "received"
    /\ request.route = "/calculate"
    /\ \E h \in {Handle(request)} :
           /\ response' = h.response
           /\ calls' = h.calls
           /\ checked' = h.checked
    /\ pc' = "responded"
    /\ UNCHANGED <<request, served, vin, vout>>

\* GET /health
health_check ==
    /\ pc = "received"
    /\ request.route = "/health"
    /\ response' = Response(200, "", <<>>,
                            [kind |-> "health", status |-> "healthy",
                             service |-> "mortgage-calculator"])
    /\ pc' = "responded"
    /\ UNCHANGED <<request, checked, calls, served, vin, vout>>

\* The response is sent; nothing of the request is kept.
Send ==
    /\ pc = "responded"
    /\ pc' = "idle"
    /\ served' = served + 1
    /\ request' = None
    /\ response' = None
    /\ checked' = None
    /\ calls' = <<>>
    /\ UNCHANGED <<vin, vout>>

Next ==
    \/ \E req \in Requests : Receive(req)
    \/ Calculate
    \/ health_check
    \/ Send

Spec == Init /\ [][Next]_vars

\* ------------------------------------------------------------------ validate_input alone
InitValidate ==
    /\ pc = "idle"
    /\ request = None
    /\ response = None
    /\ checked = None
    /\ calls = <<>>
    /\ served = 0
    /\ vin \in ValidateCalls
    /\ vout = None

Validate ==
    /\ IsNone(vout)
    /\ vout' = validate_input(vin.value, vin.field_name, vin.min_val, vin.max_val)
    /\ UNCHANGED <<pc, request, response, checked, calls, served, vin>>

NextValidate == Validate

SpecValidate == InitValidate /\ [][NextValidate]_vars

\* ------------------------------------------------------------------ properties
FieldKeys == {"principal", "annual_rate", "years"}

\* The name validate_input is given for a field, its key in the payload and
\* its place in the fixed order.
FieldName(f) ==
    CASE f = "principal" -> "Principal"
      [] f = "annual_rate" -> "Annual Interest Rate"
      [] f = "years" -> "Years"

RawOf(data, f) ==
    CASE f = "principal" -> data.principal
      [] f = "annual_rate" -> data.annualRate
      [] f = "years" -> data.years

OrderOf(name) ==
    CASE name = "Principal" -> 1
      [] name = "Annual Interest Rate" -> 2
      [] name = "Years" -> 3

\* The handler has answered a POST /calculate.
Responded == pc = "responded" /\ request.route = "/calculate"
\* ... and the payload was a mapping, so the three fields were validated.
Validated == Responded /\ ~IsNone(checked)

Failed(f) == ~IsNone(checked[f].error)
ErrText(e) == IF IsNone(e) THEN "" ELSE e.text
Same(a, b) == a.kind = b.kind /\ (a.kind = "message" => a = b)
Listed(details, m) == \E i \in DOMAIN details : details[i] = m

\* The decimal value a text denotes, for the bounds a claim names.
Exactly(text) == Decimal(text)
IsNumber(d) == d.kind \in {"finite", "inf"}
Below(d, b) == IsNumber(d) /\ NumLess(d, b)
Above(d, b) == IsNumber(d) /\ NumLess(b, d)
Within(x, lo, hi) == x.kind = "finite" /\ ~NumLess(x, lo) /\ ~NumLess(hi, x)
IsInteger(x) == x.kind = "finite" /\ x.frac = 0 /\ ~x.tiny

\* --- C1: the error validate_input returns is the message of the first
\* gate that fails in the order empty, malicious pattern, decimal parse,
\* minimum bound, maximum bound (and there is no error when no gate fails).
FirstFailingNumber(d, field_name, min_val, max_val) ==
    IF d.kind = "invalid" THEN Msg("must be a valid number", field_name, None)
    ELSE IF ~IsNone(min_val) /\ Below(d, min_val)
      THEN Msg("must be at least", field_name, min_val)
    ELSE IF ~IsNone(max_val) /\ Above(d, max_val)
      THEN Msg("must be no more than", field_name, max_val)
    ELSE None

FirstFailingGate(s, field_name, min_val, max_val) ==
    IF s = <<>> THEN Msg("cannot be empty", field_name, None)
    ELSE IF IsMalicious(s) THEN Msg("Invalid characters detected in", field_name, None)
    ELSE FirstFailingNumber(Decimal(s), field_name, min_val, max_val)

C1_FirstFailingGate ==
    (~IsNone(vout) /\ vout.kind = "return") =>
        Same(vout.error,
             FirstFailingGate(Strip(PyStr(vin.value)), vin.field_name,
                              vin.min_val, vin.max_val))

\* --- C2: validate_input never raises; it returns either (float, None) or
\* (None, non-empty message), and a failure inside the gates comes back as
\* "Validation error for <field>".
C2_TwoOutcomes ==
    ~IsNone(vout) =>
        /\ vout.kind = "return"
        /\ IsNone(vout.value) # IsNone(vout.error)
        /\ ~IsNone(vout.value) => vout.value.type = "float"
        /\ ~IsNone(vout.error) =>
              vout.error.kind = "message" /\ vout.error.text # ""
        /\ (validate_input_body(vin.value, vin.field_name, vin.min_val,
                                vin.max_val).kind = "raise")
              <=> Same(vout.error, Msg("Validation error for", vin.field_name, None))

C2_Witness ==
    /\ ~IsNone(vout)
    /\ vout.kind = "return"
    /\ ErrText(vout.error) = "Validation error for"

\* --- C3: the details of a "Validation failed" response hold exactly one
\* message for each field that failed and none for a field that passed, in
\* the order principal, annual rate, years; the response is "Validation
\* failed" exactly when some field failed.
C3_AllErrorsListed ==
    Validated =>
        /\ (response.error = "Validation failed") <=> (\E f \in FieldKeys : Failed(f))
        /\ response.error # "Validation failed" => response.details = <<>>
        /\ \A f \in FieldKeys :
              /\ Cardinality({i \in DOMAIN response.details :
                                response.details[i].field = FieldName(f)})
                   = IF Failed(f) THEN 1 ELSE 0
              /\ Failed(f) => Listed(response.details, checked[f].error)
        /\ \A i, j \in DOMAIN response.details :
              i < j => OrderOf(response.details[i].field)
                         < OrderOf(response.details[j].field)

C3_Witness ==
    /\ Validated
    /\ Failed("principal") /\ ~Failed("annual_rate") /\ Failed("years")
    /\ Len(response.details) = 2

\* --- C4: calculate_mortgage runs at most once per request, only when all
\* three fields passed, with principal in [1000, 10000000], annual rate in
\* [0.01, 50.0] and years in [1, 50]; when a field failed it does not run
\* and no success record is produced.
C4_CalculatorOnlyAfterValidation ==
    /\ Len(calls) <= 1
    /\ calls # <<>> =>
          /\ Validated
          /\ \A f \in FieldKeys : ~Failed(f)
          /\ Within(calls[1].principal, Exactly(<<"1","0","0","0">>),
                    Exactly(<<"1","0","0","0","0","0","0","0">>))
          /\ Within(calls[1].annual_rate, Exactly(<<"0",".","0","1">>),
                    Exactly(<<"5","0",".","0">>))
          /\ Within(calls[1].years, Exactly(<<"1">>), Exactly(<<"5","0">>))
    /\ (Validated /\ \E f \in FieldKeys : Failed(f)) =>
          calls = <<>> /\ IsNone(response.result)
    /\ (Responded /\ ~IsNone(response.result)) => calls # <<>>

C4_Witness ==
    /\ Responded
    /\ Len(calls) = 1
    /\ response.status = 200

\* --- C5: a field absent from the payload ends the request in a validation
\* failure listing "<Field> cannot be empty" for it.
C5_AbsentIsEmpty ==
    (Responded /\ request.data.kind = "dict") =>
        \A f \in FieldKeys :
            IsNone(RawOf(request.data, f)) =>
                /\ response.error = "Validation failed"
                /\ Listed(response.details, Msg("cannot be empty", FieldName(f), None))

\* --- C6: a value that parsed as a number is rejected by the range gates
\* exactly when it is strictly below the minimum (minimum-bound message) or
\* strictly above the maximum (maximum-bound message); a value equal to a
\* bound is accepted.
RangeVerdict(d, e, lo, hi) ==
    (IsNumber(d) /\ ErrText(e) \notin {"cannot be empty", "Invalid characters detected in"}) =>
        /\ (ErrText(e) = "must be at least") <=> Below(d, lo)
        /\ (ErrText(e) = "must be no more than") <=> (~Below(d, lo) /\ Above(d, hi))
        /\ IsNone(e) <=> (~Below(d, lo) /\ ~Above(d, hi))

C6_InclusiveBounds ==
    Validated =>
        /\ RangeVerdict(Decimal(Strip(PyStr(request.data.principal))),
                        checked.principal.error,
                        Exactly(<<"1","0","0","0">>),
                        Exactly(<<"1","0","0","0","0","0","0","0">>))
        /\ RangeVerdict(Decimal(Strip(PyStr(request.data.annualRate))),
                        checked.annual_rate.error,
                        Exactly(<<"0",".","0","1">>), Exactly(<<"5","0",".","0">>))
        /\ RangeVerdict(Decimal(Strip(PyStr(request.data.years))),
                        checked.years.error,
                        Exactly(<<"1">>), Exactly(<<"5","0">>))

\* --- C7: a field holding a malicious value ends the request in the
\* "Validation failed" (400) outcome with "Invalid characters detected in
\* <field>" among the details, whatever the other fields hold; never in the
\* unexpected-error (500) outcome and never in success.
MaliciousSamples == {StrV(ScriptText), StrV(<<"1",";">>)}

C7_InjectionRejected ==
    (Responded /\ request.data.kind = "dict") =>
        \A f \in FieldKeys :
            RawOf(request.data, f) \in MaliciousSamples =>
                /\ response.status = 400
                /\ response.error = "Validation failed"
                /\ IsNone(response.result)
                /\ Listed(response.details,
                          Msg("Invalid characters detected in", FieldName(f), None))

C7_Witness ==
    /\ Validated
    /\ request.data.years = StrV(ScriptText)
    /\ ~Failed("principal") /\ ~Failed("annual_rate")
    /\ response.status = 400

\* --- C8: the years handed to calculate_mortgage and echoed in the success
\* record are a positive integer in [1, 50]: no fractional number of years
\* passes the validator.
C8_YearsIsInteger ==
    (Responded /\ response.status = 200) =>
        /\ IsInteger(calls[1].years)
        /\ Within(calls[1].years, Exactly(<<"1">>), Exactly(<<"5","0">>))
        /\ response.result.years = calls[1].years.int

\* --- C10: an annual rate of 0 is rejected by the minimum bound, so no
\* request reaches the zero-rate branch of calculate_mortgage and none
\* divides by zero in the general formula.
ZeroRateSamples == {StrV(<<"0">>)}

C10_ZeroRateUnreachable ==
    /\ (Validated /\ request.data.annualRate \in ZeroRateSamples) =>
          ErrText(checked.annual_rate.error) = "must be at least"
    /\ \A i \in DOMAIN calls :
          /\ calls[i].result.kind = "return"
          /\ calls[i].result.branch = "general"

C10_Witness ==
    /\ Validated
    /\ request.data.annualRate \in ZeroRateSamples
    /\ ~Failed("principal") /\ ~Failed("years")
    /\ response.error = "Validation failed"
====
